---------------------------- MODULE Spec2Model ----------------------------
(***************************************************************************)
(* A model of the AILibrary backend: the in-memory conversation store      *)
(* (services/conversation.py), the MongoDB conversation store              *)
(* (services/mongo_conversation.py), the Groq gateway                      *)
(* (services/groq_service.py) and the streaming endpoint (main.py).        *)
(*                                                                         *)
(* Text is a sequence of characters, so that "+=" on strings is \o.        *)
(* Python's None and "" are both falsy and take the same branch in every   *)
(* test of this code ("if not conversation_id", "if self.system_prompt",   *)
(* "conversation_id or ''"); they are one value here (NoId, NoPrompt).     *)
(* An Optional[int] is a sequence of length at most one.                   *)
(***************************************************************************)
EXTENDS Integers, Sequences, FiniteSets, TLC

(***************************************************************************)
(* Bounds of the model.                                                    *)
(***************************************************************************)
MaxChunks == 2      \* provider events of one upstream stream
MaxMsgs == 2        \* messages held by the store in the store specification
MaxTime == 3        \* last instant of the clock in the store specification
MaxStopLen == 5     \* longest list of stop sequences passed to Hyperparameters

(***************************************************************************)
(* Values.                                                                 *)
(***************************************************************************)
UuidPool == {"u1", "u2"}          \* the values uuid.uuid4() returns
Fabricated == {"x"}               \* an id a client makes up
Ids == UuidPool \cup Fabricated
NoId == ""
NoPrompt == << >>
None == << >>                     \* Optional[int]: None
Some(k) == << k >>                \* Optional[int]: a value
Reqs == {"r1"}                    \* the request task of the one-request specifications
AllReqs == {"r1", "r2"}           \* request tasks
Tasks == {"t1", "t2"}             \* tasks calling the MongoDB store concurrently

Models == {"llama-3.1-8b-instant"}
UserPrompts == { <<"H", "i">> }
SystemPrompts == { NoPrompt, <<"s">> }
ProviderChunks == { << >>, <<"H", "e", "l">>, <<"l", "o">> }

Message(role, content) == [role |-> role, content |-> content]
StoreUuids == {"u1"}              \* the values uuid4() returns to store calls
StoreMessages ==
    { Message("user", <<"H", "i">>),
      Message("assistant", <<"H", "e", "l", "l", "o">>) }

VARIABLES
    conversations,   \* ConversationManager._conversations: id -> [messages]
    issued,          \* the ids uuid4() has returned so far
    call,            \* the last store call: its arguments and what it returned
    log,             \* per id, the messages appended by calls since the id was last absent
    pc,              \* per request, where chat_stream / generate_stream stands
    request,         \* per request, the ChatRequest
    conversation_id, \* per request, chat_stream's local conversation_id
    payload,         \* per request, the messages of request.to_messages(...)
    full_response,   \* per request, generate_stream's accumulator
    content,         \* per request, the fragment bound by the async for
    sent,            \* per request, the events handed to the transport, in order
    chunks,          \* per request, the provider events llm.astream has produced
    produced,        \* per request, the fragments stream_chat_completion has yielded
    pre,             \* per request, the store as it was when the request arrived
    collection,      \* the MongoDB collection "conversations": _id -> document
    now,             \* the last instant datetime.utcnow() has returned
    mcall,           \* the last call of the MongoDB store and what it returned
    tasks,           \* per task, where its MongoDB add_message stands
    hyper            \* the last Hyperparameters(...) call: its arguments and outcome

memVars == << conversations, issued, call, log >>
reqVars == << pc, request, conversation_id, payload, full_response, content,
              sent, chunks, produced, pre >>
mongoVars == << collection, now, mcall >>
auxVars == << tasks, hyper >>
vars == << conversations, issued, call, log, pc, request, conversation_id,
           payload, full_response, content, sent, chunks, produced, pre,
           collection, now, mcall, tasks, hyper >>

(***************************************************************************)
(* Python helpers.                                                         *)
(***************************************************************************)
\* seq[start:] for a Python list: a negative start counts from the end.
PySliceFrom(seq, start) ==
    LET n == Len(seq)
        from == IF start < 0
                THEN (IF n + start < 0 THEN 0 ELSE n + start)
                ELSE (IF start > n THEN n ELSE start)
    IN  SubSeq(seq, from + 1, n)

\* The truth value of an Optional[int]: None and 0 are falsy.
Truthy(opt) == opt # None /\ opt[1] # 0

RECURSIVE Concat(_)
Concat(seqs) == IF seqs = << >> THEN << >> ELSE Head(seqs) \o Concat(Tail(seqs))

(***************************************************************************)
(* ConversationManager (services/conversation.py).  created_at, updated_at *)
(* and a message's timestamp are written and never read by any method of   *)
(* the class; the model keeps the messages, which is all the methods read. *)
(***************************************************************************)
EmptyConversation == [messages |-> << >>]

\* create_conversation with uuid4() having returned id.
create_conversation(cs, id) ==
    [i \in DOMAIN cs \cup {id} |-> IF i = id THEN EmptyConversation ELSE cs[i]]

\* A variant of add_message that appends to known conversations only.
add_message_strict(cs, id, role, msg) ==
    IF id \notin DOMAIN cs
    THEN cs
    ELSE [cs EXCEPT ![id].messages = Append(@, Message(role, msg))]

add_message(cs, id, role, msg) ==
    LET base == IF id \notin DOMAIN cs THEN create_conversation(cs, id) ELSE cs
    IN  [base EXCEPT ![id].messages = Append(@, Message(role, msg))]

get_conversation_history(cs, id, max_messages) ==
    IF id \notin DOMAIN cs
    THEN << >>
    ELSE IF Truthy(max_messages)
         THEN PySliceFrom(cs[id].messages, 0 - max_messages[1])
         ELSE cs[id].messages

conversation_exists(cs, id) == id \in DOMAIN cs

\* A variant of delete_conversation that reports success for any id.
delete_conversation_true(cs, id) ==
    [conversations |-> [i \in DOMAIN cs \ {id} |-> cs[i]], result |-> TRUE]

\* delete_conversation: the store afterwards and the value returned.
delete_conversation(cs, id) ==
    IF id \in DOMAIN cs
    THEN [conversations |-> [i \in DOMAIN cs \ {id} |-> cs[i]], result |-> TRUE]
    ELSE [conversations |-> cs, result |-> FALSE]

get_conversation_count(cs) == Cardinality(DOMAIN cs)

(***************************************************************************)
(* MongoConversationManager (services/mongo_conversation.py).  A document  *)
(* is keyed by _id and holds messages, updated_at, temporary and, when     *)
(* temporary, expires_at.  created_at and a message's timestamp are        *)
(* written once and read by nothing, neither by the class nor by the TTL   *)
(* index; the model leaves them out, and ts holds the reads of the clock   *)
(* that come after them.  Every datetime.utcnow() of a method is a read of *)
(* its own: the reads of one call are passed as ts, in the order the       *)
(* method makes them.  The time unit is that of conversation_ttl_hours.    *)
(***************************************************************************)
TTL == 2

Document(messages, updated_at, temporary, expires_at) ==
    [messages |-> messages, updated_at |-> updated_at,
     temporary |-> temporary, expires_at |-> expires_at]

\* find_one({"_id": id}) found a document.
find_one(coll, id) == id \in DOMAIN coll

\* create_conversation with uuid4() having returned id.
mongo_create_conversation(coll, id, temporary, ts) ==
    [i \in DOMAIN coll \cup {id} |->
        IF i = id
        THEN Document(<< >>, ts[1], temporary,
                      IF temporary THEN Some(ts[2] + TTL) ELSE None)
        ELSE coll[i]]

\* A variant of mongo_add_message that leaves expires_at as it is when it
\* updates a document.
mongo_add_message_fixed(coll, id, role, msg, ts) ==
    IF ~find_one(coll, id)
    THEN [i \in DOMAIN coll \cup {id} |->
            IF i = id
            THEN Document(<< Message(role, msg) >>, ts[1], TRUE,
                          Some(ts[2] + TTL))
            ELSE coll[i]]
    ELSE [coll EXCEPT ![id].messages = Append(@, Message(role, msg)),
                      ![id].updated_at = ts[1]]

mongo_add_message(coll, id, role, msg, ts) ==
    IF ~find_one(coll, id)
    THEN [i \in DOMAIN coll \cup {id} |->
            IF i = id
            THEN Document(<< Message(role, msg) >>, ts[1], TRUE,
                          Some(ts[2] + TTL))
            ELSE coll[i]]
    ELSE [coll EXCEPT ![id].messages = Append(@, Message(role, msg)),
                      ![id].updated_at = ts[1],
                      ![id].expires_at =
                          IF coll[id].temporary THEN Some(ts[2] + TTL) ELSE @]

\* insert_one(doc): the _id index is unique, so inserting a document whose
\* _id the collection holds raises DuplicateKeyError and inserts nothing.
mongo_insert_one(coll, id, doc) ==
    IF id \in DOMAIN coll
    THEN [raised |-> TRUE, collection |-> coll]
    ELSE [raised |-> FALSE,
          collection |-> [i \in DOMAIN coll \cup {id} |->
                            IF i = id THEN doc ELSE coll[i]]]

\* update_one({"_id": id}, {$push: {messages: m}, $set: {updated_at, and
\* expires_at when set_expires}}): a filter that matches no document updates
\* nothing and raises nothing.
mongo_update_one(coll, id, m, updated_at, set_expires, expires_at) ==
    IF id \notin DOMAIN coll
    THEN coll
    ELSE [coll EXCEPT ![id].messages = Append(@, m),
                      ![id].updated_at = updated_at,
                      ![id].expires_at = IF set_expires THEN expires_at ELSE @]

\* The number of reads of the clock the two methods make for updated_at and
\* expires_at.
CreateReads(temporary) == IF temporary THEN 2 ELSE 1
AddMessageReads(coll, id) ==
    IF find_one(coll, id) /\ ~coll[id].temporary THEN 1 ELSE 2

\* A variant of mongo_get_conversation_history that returns the first
\* max_messages messages.
mongo_get_conversation_history_first(coll, id, max_messages) ==
    IF ~find_one(coll, id)
    THEN << >>
    ELSE IF Truthy(max_messages)
         THEN SubSeq(coll[id].messages, 1,
                     IF max_messages[1] < Len(coll[id].messages)
                     THEN max_messages[1] ELSE Len(coll[id].messages))
         ELSE coll[id].messages

mongo_get_conversation_history(coll, id, max_messages) ==
    IF ~find_one(coll, id)
    THEN << >>
    ELSE IF Truthy(max_messages)
         THEN PySliceFrom(coll[id].messages, 0 - max_messages[1])
         ELSE coll[id].messages

\* count_documents({"_id": id}) > 0
mongo_conversation_exists(coll, id) == Cardinality({i \in DOMAIN coll : i = id}) > 0

\* delete_one: the collection afterwards and deleted_count > 0.
mongo_delete_conversation(coll, id) ==
    IF id \in DOMAIN coll
    THEN [collection |-> [i \in DOMAIN coll \ {id} |-> coll[i]], result |-> TRUE]
    ELSE [collection |-> coll, result |-> FALSE]

\* count_documents({})
mongo_get_conversation_count(coll) == Cardinality(DOMAIN coll)

\* The index expires_at_ttl (expireAfterSeconds = 0) of ensure_indexes: the
\* documents MongoDB's TTL monitor removes at its next pass at time t.
Expired(coll, t) ==
    { i \in DOMAIN coll : coll[i].expires_at # None /\ coll[i].expires_at[1] < t }

(***************************************************************************)
(* Calls of the store.  The two backends sit behind one method set, so a   *)
(* call is made on both, the in-memory one (conversations, call) and the   *)
(* MongoDB one (collection, mcall), with uuid4() returning the same id to  *)
(* both; neither reads the other's state.  call and mcall hold the call    *)
(* the last step made (none when the last step was not a call); log        *)
(* records, per id, what has been appended since the id was last created   *)
(* or deleted.                                                             *)
(***************************************************************************)
NoCall ==
    [op |-> "none", id |-> NoId, message |-> Message("user", << >>),
     max_messages |-> None, ok |-> FALSE, messages |-> << >>, count |-> 0,
     status |-> 0]

Limits == { None, Some(0), Some(1), Some(2) }

RECURSIVE TotalMessages(_, _)
TotalMessages(cs, ids) ==
    IF ids = {} THEN 0
    ELSE LET i == CHOOSE j \in ids : TRUE
         IN  Len(cs[i].messages) + TotalMessages(cs, ids \ {i})

\* The results of n successive reads of the clock: they do not go back, and
\* at most one tick passes within a call.
Reads(n) ==
    LET top == IF now < MaxTime THEN now + 1 ELSE now
    IN  { ts \in [1 .. n -> now .. top] :
            \A i \in 1 .. n - 1 : ts[i] <= ts[i + 1] }

CreateCall ==
    \E id \in StoreUuids \ issued, temporary \in BOOLEAN :
      \E ts \in Reads(CreateReads(temporary)) :
        /\ conversations' = create_conversation(conversations, id)
        /\ collection' = mongo_create_conversation(collection, id, temporary, ts)
        /\ now' = ts[CreateReads(temporary)]
        /\ issued' = issued \cup {id}
        /\ log' = [log EXCEPT ![id] = << >>]
        /\ call' = [NoCall EXCEPT !.op = "create", !.id = id]
        /\ mcall' = [NoCall EXCEPT !.op = "create", !.id = id]
        /\ UNCHANGED << reqVars, auxVars >>

AddMessageCall ==
    \E id \in issued \cup Fabricated, m \in StoreMessages :
      \E ts \in Reads(AddMessageReads(collection, id)) :
        /\ TotalMessages(conversations, DOMAIN conversations) < MaxMsgs
        /\ conversations' = add_message(conversations, id, m.role, m.content)
        /\ collection' = mongo_add_message(collection, id, m.role, m.content, ts)
        /\ now' = ts[AddMessageReads(collection, id)]
        /\ log' = [log EXCEPT ![id] = Append(@, m)]
        /\ call' = [NoCall EXCEPT !.op = "append", !.id = id, !.message = m,
                                  !.ok = conversation_exists(conversations, id)]
        /\ mcall' = [NoCall EXCEPT !.op = "append", !.id = id, !.message = m,
                                   !.ok = find_one(collection, id)]
        /\ UNCHANGED << issued, reqVars, auxVars >>

\* A variant of HistoryCall in which reading an unknown id leaves an empty
\* conversation behind, as dict.setdefault or an upsert would.
HistoryCallCreating ==
    \E id \in issued \cup Fabricated, k \in Limits :
        /\ call' = [NoCall EXCEPT
                        !.op = "history", !.id = id, !.max_messages = k,
                        !.messages = get_conversation_history(conversations, id, k)]
        /\ mcall' = [NoCall EXCEPT
                        !.op = "history", !.id = id, !.max_messages = k,
                        !.messages = mongo_get_conversation_history(collection, id, k)]
        /\ conversations' = IF conversation_exists(conversations, id)
                            THEN conversations
                            ELSE create_conversation(conversations, id)
        /\ collection' = IF find_one(collection, id)
                         THEN collection
                         ELSE mongo_create_conversation(collection, id, TRUE,
                                                        << now, now >>)
        /\ UNCHANGED << now, issued, log, reqVars, auxVars >>

HistoryCall ==
    \E id \in issued \cup Fabricated, k \in Limits :
        /\ call' = [NoCall EXCEPT
                        !.op = "history", !.id = id, !.max_messages = k,
                        !.messages = get_conversation_history(conversations, id, k)]
        /\ mcall' = [NoCall EXCEPT
                        !.op = "history", !.id = id, !.max_messages = k,
                        !.messages = mongo_get_conversation_history(collection, id, k)]
        /\ UNCHANGED << conversations, collection, now, issued, log, reqVars, auxVars >>

ExistsCall ==
    \E id \in issued \cup Fabricated :
        /\ call' = [NoCall EXCEPT !.op = "exists", !.id = id,
                                  !.ok = conversation_exists(conversations, id)]
        /\ mcall' = [NoCall EXCEPT !.op = "exists", !.id = id,
                                   !.ok = mongo_conversation_exists(collection, id)]
        /\ UNCHANGED << conversations, collection, now, issued, log, reqVars, auxVars >>

DeleteCall ==
    \E id \in issued \cup Fabricated :
        LET d == delete_conversation(conversations, id)
            md == mongo_delete_conversation(collection, id)
        IN  /\ conversations' = d.conversations
            /\ collection' = md.collection
            /\ log' = [log EXCEPT ![id] = << >>]
            /\ call' = [NoCall EXCEPT !.op = "delete", !.id = id, !.ok = d.result]
            /\ mcall' = [NoCall EXCEPT !.op = "delete", !.id = id, !.ok = md.result]
            /\ UNCHANGED << now, issued, reqVars, auxVars >>

CountCall ==
    /\ call' = [NoCall EXCEPT !.op = "count",
                              !.count = get_conversation_count(conversations)]
    /\ mcall' = [NoCall EXCEPT !.op = "count",
                               !.count = mongo_get_conversation_count(collection)]
    /\ UNCHANGED << conversations, collection, now, issued, log, reqVars, auxVars >>

\* Time passes between calls.
Tick ==
    /\ now < MaxTime
    /\ now' = now + 1
    /\ call' = NoCall
    /\ mcall' = NoCall
    /\ UNCHANGED << conversations, issued, log, collection, reqVars, auxVars >>

\* A pass of MongoDB's TTL monitor over the index expires_at_ttl.
TTLMonitor ==
    /\ Expired(collection, now) # {}
    /\ collection' = [i \in DOMAIN collection \ Expired(collection, now) |->
                        collection[i]]
    /\ call' = NoCall
    /\ mcall' = NoCall
    /\ UNCHANGED << conversations, issued, log, now, reqVars, auxVars >>

(***************************************************************************)
(* MongoConversationManager.add_message as the steps of a task: the method *)
(* awaits find_one, then awaits insert_one or update_one, and other tasks  *)
(* run at each await.                                                      *)
(*   idle      not called                                                  *)
(*   found     find_one has returned; the document it returned is held in  *)
(*             the local "conversation"                                    *)
(*   returned, raised   the call has ended                                 *)
(***************************************************************************)
\* Lines 67-73.
TaskFindOne(t) ==
    /\ tasks[t].pc = "idle"
    /\ \E id \in StoreUuids \cup Fabricated, m \in StoreMessages :
        tasks' = [tasks EXCEPT ![t] =
                    [pc |-> "found", id |-> id, message |-> m,
                     found |-> find_one(collection, id),
                     temporary |-> IF find_one(collection, id)
                                   THEN collection[id].temporary ELSE TRUE,
                     raised |-> FALSE]]
    /\ UNCHANGED << memVars, reqVars, collection, now, mcall, hyper >>

\* Lines 75-100.
TaskWrite(t) ==
    /\ tasks[t].pc = "found"
    /\ LET k == tasks[t]
           n == IF k.found /\ ~k.temporary THEN 1 ELSE 2
       IN  \E ts \in Reads(n) :
             /\ now' = ts[n]
             /\ IF ~k.found
                THEN LET w == mongo_insert_one(collection, k.id,
                                  Document(<< k.message >>, ts[1], TRUE,
                                           Some(ts[2] + TTL)))
                     IN  /\ collection' = w.collection
                         /\ tasks' = [tasks EXCEPT
                                ![t].pc = IF w.raised THEN "raised" ELSE "returned",
                                ![t].raised = w.raised]
                ELSE /\ collection' = mongo_update_one(collection, k.id, k.message,
                                          ts[1], k.temporary, Some(ts[n] + TTL))
                     /\ tasks' = [tasks EXCEPT ![t].pc = "returned"]
    /\ UNCHANGED << memVars, reqVars, mcall, hyper >>

(***************************************************************************)
(* ChatRequest.to_messages (models/chat.py): the history, then the system  *)
(* prompt if there is one, then the user prompt.                           *)
(***************************************************************************)
ContextWindow == 20

\* A variant of to_messages that puts the system prompt before the history.
to_messages_system_first(req, conversation_history) ==
    (IF req.system_prompt # NoPrompt
     THEN << Message("system", req.system_prompt) >>
     ELSE << >>)
        \o conversation_history
        \o << Message("user", req.user_prompt) >>

to_messages(req, conversation_history) ==
    conversation_history
        \o (IF req.system_prompt # NoPrompt
            THEN << Message("system", req.system_prompt) >>
            ELSE << >>)
        \o << Message("user", req.user_prompt) >>

(***************************************************************************)
(* The events generate_stream yields (main.py).                            *)
(***************************************************************************)
Event(kind, cid, model, text, finished) ==
    [kind |-> kind, conversation_id |-> cid, model |-> model,
     content |-> text, finished |-> finished]
MetaEvent(cid, model) == Event("meta", cid, model, << >>, FALSE)
ContentEvent(text) == Event("content", NoId, "", text, FALSE)
FinishedEvent == Event("content", NoId, "", << >>, TRUE)
ErrorEvent == Event("error", NoId, "", << >>, TRUE)

\* The text of the fragment events among evs, in order.
RECURSIVE Fragments(_)
Fragments(evs) ==
    IF evs = << >> THEN << >>
    ELSE (IF Head(evs).kind = "content" /\ ~Head(evs).finished
          THEN << Head(evs).content >> ELSE << >>) \o Fragments(Tail(evs))

\* A variant of gateway_yields that yields every provider event.
gateway_yields_all(chunk) == TRUE

(***************************************************************************)
(* GroqService.stream_chat_completion (services/groq_service.py): a        *)
(* provider event is yielded when its content is truthy.                   *)
(***************************************************************************)
gateway_yields(chunk) == chunk # << >>

(***************************************************************************)
(* chat_stream and generate_stream (main.py).  The store is the in-memory  *)
(* ConversationManager, whose methods are synchronous: a run of store      *)
(* calls with no yield or await between them is one step.                  *)
(*   idle      no request yet                                              *)
(*   ready     chat_stream has returned the StreamingResponse              *)
(*   await     suspended at a yield of line 112 or 116, or awaiting the    *)
(*             gateway's next fragment                                     *)
(*   have      a fragment is bound and accumulated, not yet yielded        *)
(*   fin_sent  suspended at the yield of the finished marker, line 118     *)
(*   done, failed, cancelled   the generator has ended                     *)
(***************************************************************************)
Requests ==
    [model : Models, user_prompt : UserPrompts, system_prompt : SystemPrompts,
     save_conversation : BOOLEAN, conversation_id : {NoId} \cup Ids]

NoRequest ==
    [model |-> "", user_prompt |-> << >>, system_prompt |-> NoPrompt,
     save_conversation |-> FALSE, conversation_id |-> NoId]

\* A variant of accumulate that puts the new fragment first.
accumulate_front(full, fragment) == fragment \o full

\* Line 115.
accumulate(full, fragment) == full \o fragment

\* A variant of persist_turn that appends the assistant message before the
\* user message.
persist_turn_swapped(cs, req, cid, full) ==
    IF req.save_conversation /\ cid # NoId
    THEN LET c1 == IF req.system_prompt # NoPrompt
                   THEN add_message(cs, cid, "system", req.system_prompt)
                   ELSE cs
             c2 == add_message(c1, cid, "assistant", full)
         IN  add_message(c2, cid, "user", req.user_prompt)
    ELSE cs

\* A variant of persist_turn that does not test save_conversation.
persist_turn_always(cs, req, cid, full) ==
    IF cid # NoId
    THEN LET c1 == IF req.system_prompt # NoPrompt
                   THEN add_message(cs, cid, "system", req.system_prompt)
                   ELSE cs
             c2 == add_message(c1, cid, "user", req.user_prompt)
         IN  add_message(c2, cid, "assistant", full)
    ELSE cs

\* Lines 120-136: the appends of a completed turn.
persist_turn(cs, req, cid, full) ==
    IF req.save_conversation /\ cid # NoId
    THEN LET c1 == IF req.system_prompt # NoPrompt
                   THEN add_message(cs, cid, "system", req.system_prompt)
                   ELSE cs
             c2 == add_message(c1, cid, "user", req.user_prompt)
         IN  add_message(c2, cid, "assistant", full)
    ELSE cs

\* A variant of ChatStream that creates the conversation of an unknown
\* supplied id under that id.
ChatStreamReuse(r) ==
    /\ pc[r] = "idle"
    /\ \E req \in Requests :
        /\ req.conversation_id \in {NoId} \cup issued \cup Fabricated
        /\ LET create == /\ req.save_conversation
                         /\ \/ req.conversation_id = NoId
                            \/ ~conversation_exists(conversations, req.conversation_id)
           IN  \E id \in (IF create /\ req.conversation_id = NoId
                          THEN UuidPool \ issued ELSE {req.conversation_id}) :
                 LET cs == IF create THEN create_conversation(conversations, id)
                           ELSE conversations
                     history == IF req.save_conversation
                                THEN get_conversation_history(cs, id, Some(ContextWindow))
                                ELSE << >>
                 IN  /\ conversations' = cs
                     /\ issued' = IF create THEN issued \cup {id} ELSE issued
                     /\ request' = [request EXCEPT ![r] = req]
                     /\ conversation_id' = [conversation_id EXCEPT ![r] = id]
                     /\ payload' = [payload EXCEPT ![r] = to_messages(req, history)]
                     /\ pre' = [pre EXCEPT ![r] = conversations]
    /\ pc' = [pc EXCEPT ![r] = "ready"]
    /\ UNCHANGED << call, log, full_response, content, sent, chunks, produced,
                    mongoVars, auxVars >>

\* Lines 85-105 and 144-152: resolve the conversation, load the history,
\* build the payload, return the response.
ChatStream(r) ==
    /\ pc[r] = "idle"
    /\ \E req \in Requests :
        /\ req.conversation_id \in {NoId} \cup issued \cup Fabricated
        /\ LET create == /\ req.save_conversation
                         /\ \/ req.conversation_id = NoId
                            \/ ~conversation_exists(conversations, req.conversation_id)
           IN  \E id \in (IF create THEN UuidPool \ issued ELSE {req.conversation_id}) :
                 LET cs == IF create THEN create_conversation(conversations, id)
                           ELSE conversations
                     history == IF req.save_conversation
                                THEN get_conversation_history(cs, id, Some(ContextWindow))
                                ELSE << >>
                 IN  /\ conversations' = cs
                     /\ issued' = IF create THEN issued \cup {id} ELSE issued
                     /\ request' = [request EXCEPT ![r] = req]
                     /\ conversation_id' = [conversation_id EXCEPT ![r] = id]
                     /\ payload' = [payload EXCEPT ![r] = to_messages(req, history)]
                     /\ pre' = [pre EXCEPT ![r] = conversations]
    /\ pc' = [pc EXCEPT ![r] = "ready"]
    /\ UNCHANGED << call, log, full_response, content, sent, chunks, produced,
                    mongoVars, auxVars >>

\* Line 112: the metadata event.
YieldMeta(r) ==
    /\ pc[r] = "ready"
    /\ sent' = [sent EXCEPT ![r] =
                    Append(@, MetaEvent(conversation_id[r], request[r].model))]
    /\ pc' = [pc EXCEPT ![r] = "await"]
    /\ UNCHANGED << memVars, request, conversation_id, payload, full_response,
                    content, chunks, produced, pre, mongoVars, auxVars >>

\* A variant of GatewayChunk that binds the fragment without adding it to
\* the accumulator.
GatewayChunkNoAccumulate(r) ==
    /\ pc[r] = "await"
    /\ Len(chunks[r]) < MaxChunks
    /\ \E c \in ProviderChunks :
        /\ chunks' = [chunks EXCEPT ![r] = Append(@, c)]
        /\ IF gateway_yields(c)
           THEN /\ produced' = [produced EXCEPT ![r] = Append(@, c)]
                /\ content' = [content EXCEPT ![r] = c]
                /\ pc' = [pc EXCEPT ![r] = "have"]
                /\ UNCHANGED full_response
           ELSE UNCHANGED << produced, content, full_response, pc >>
    /\ UNCHANGED << memVars, request, conversation_id, payload, sent, pre,
                    mongoVars, auxVars >>

\* groq_service.py 110-112 and main.py 114-115: the provider produces an
\* event; if the gateway yields it, the loop binds and accumulates it.
GatewayChunk(r) ==
    /\ pc[r] = "await"
    /\ Len(chunks[r]) < MaxChunks
    /\ \E c \in ProviderChunks :
        /\ chunks' = [chunks EXCEPT ![r] = Append(@, c)]
        /\ IF gateway_yields(c)
           THEN /\ produced' = [produced EXCEPT ![r] = Append(@, c)]
                /\ content' = [content EXCEPT ![r] = c]
                /\ full_response' = [full_response EXCEPT ![r] = accumulate(@, c)]
                /\ pc' = [pc EXCEPT ![r] = "have"]
           ELSE UNCHANGED << produced, content, full_response, pc >>
    /\ UNCHANGED << memVars, request, conversation_id, payload, sent, pre,
                    mongoVars, auxVars >>

\* A variant of YieldContent that resumes the loop without handing the
\* fragment to the transport.
YieldContentDrop(r) ==
    /\ pc[r] = "have"
    /\ pc' = [pc EXCEPT ![r] = "await"]
    /\ UNCHANGED << memVars, request, conversation_id, payload, full_response,
                    content, sent, chunks, produced, pre, mongoVars, auxVars >>

\* Line 116: the fragment event.
YieldContent(r) ==
    /\ pc[r] = "have"
    /\ sent' = [sent EXCEPT ![r] = Append(@, ContentEvent(content[r]))]
    /\ pc' = [pc EXCEPT ![r] = "await"]
    /\ UNCHANGED << memVars, request, conversation_id, payload, full_response,
                    content, chunks, produced, pre, mongoVars, auxVars >>

\* The provider signals completion: the loop ends and line 118 yields the
\* finished marker.
GatewayEnd(r) ==
    /\ pc[r] = "await"
    /\ sent' = [sent EXCEPT ![r] = Append(@, FinishedEvent)]
    /\ pc' = [pc EXCEPT ![r] = "fin_sent"]
    /\ UNCHANGED << memVars, request, conversation_id, payload, full_response,
                    content, chunks, produced, pre, mongoVars, auxVars >>

\* A variant of Finalize with a suspension point before the append of the
\* assistant message, as awaited store calls would give.
FinalizeSplit(r) ==
    /\ \/ /\ pc[r] = "fin_sent"
          /\ conversations' =
                IF request[r].save_conversation /\ conversation_id[r] # NoId
                THEN add_message(
                        IF request[r].system_prompt # NoPrompt
                        THEN add_message(conversations, conversation_id[r],
                                         "system", request[r].system_prompt)
                        ELSE conversations,
                        conversation_id[r], "user", request[r].user_prompt)
                ELSE conversations
          /\ pc' = [pc EXCEPT ![r] = "half"]
       \/ /\ pc[r] = "half"
          /\ conversations' =
                IF request[r].save_conversation /\ conversation_id[r] # NoId
                THEN add_message(conversations, conversation_id[r],
                                 "assistant", full_response[r])
                ELSE conversations
          /\ pc' = [pc EXCEPT ![r] = "done"]
    /\ UNCHANGED << issued, call, log, request, conversation_id, payload,
                    full_response, content, sent, chunks, produced, pre,
                    mongoVars, auxVars >>

\* The generator is resumed after the finished marker: lines 120-137.
Finalize(r) ==
    /\ pc[r] = "fin_sent"
    /\ conversations' = persist_turn(conversations, request[r],
                                     conversation_id[r], full_response[r])
    /\ pc' = [pc EXCEPT ![r] = "done"]
    /\ UNCHANGED << issued, call, log, request, conversation_id, payload,
                    full_response, content, sent, chunks, produced, pre,
                    mongoVars, auxVars >>

\* A variant of GatewayError that stores the partial turn.
GatewayErrorPersist(r) ==
    /\ pc[r] = "await"
    /\ sent' = [sent EXCEPT ![r] = Append(@, ErrorEvent)]
    /\ conversations' = persist_turn(conversations, request[r],
                                     conversation_id[r], full_response[r])
    /\ pc' = [pc EXCEPT ![r] = "failed"]
    /\ UNCHANGED << issued, call, log, request, conversation_id, payload,
                    full_response, content, chunks, produced, pre, mongoVars, auxVars >>

\* A variant of GatewayError that deletes the conversation the request
\* created.
GatewayErrorCleanup(r) ==
    /\ pc[r] = "await"
    /\ sent' = [sent EXCEPT ![r] = Append(@, ErrorEvent)]
    /\ conversations' =
            IF conversation_exists(pre[r], conversation_id[r])
            THEN conversations
            ELSE delete_conversation(conversations, conversation_id[r]).conversations
    /\ pc' = [pc EXCEPT ![r] = "failed"]
    /\ UNCHANGED << issued, call, log, request, conversation_id, payload,
                    full_response, content, chunks, produced, pre,
                    mongoVars, auxVars >>

\* The gateway raises (groq_service.py 116-118): lines 139-142 yield the
\* error event and the generator ends.
GatewayError(r) ==
    /\ pc[r] = "await"
    /\ sent' = [sent EXCEPT ![r] = Append(@, ErrorEvent)]
    /\ pc' = [pc EXCEPT ![r] = "failed"]
    /\ UNCHANGED << memVars, request, conversation_id, payload, full_response,
                    content, chunks, produced, pre, mongoVars, auxVars >>

\* A variant of Disconnect that stores the partial turn, as a finally
\* clause around the appends would.
DisconnectPersist(r) ==
    /\ pc[r] \in {"ready", "await", "fin_sent"}
    /\ conversations' = persist_turn(conversations, request[r],
                                     conversation_id[r], full_response[r])
    /\ pc' = [pc EXCEPT ![r] = "cancelled"]
    /\ UNCHANGED << issued, call, log, request, conversation_id, payload,
                    full_response, content, sent, chunks, produced, pre,
                    mongoVars, auxVars >>

\* The client disconnects: the generator is closed where it is suspended.
\* GeneratorExit and CancelledError are not Exceptions, so line 139 does
\* not catch them and nothing more of the generator runs.
Disconnect(r) ==
    /\ pc[r] \in {"ready", "await", "fin_sent"}
    /\ pc' = [pc EXCEPT ![r] = "cancelled"]
    /\ UNCHANGED << memVars, request, conversation_id, payload, full_response,
                    content, sent, chunks, produced, pre, mongoVars, auxVars >>

\* Lines 120-136 as the sequence of add_message calls they make.
turn_messages(req, full) ==
    (IF req.system_prompt # NoPrompt
     THEN << Message("system", req.system_prompt) >> ELSE << >>)
    \o << Message("user", req.user_prompt), Message("assistant", full) >>

RECURSIVE add_messages(_, _, _)
add_messages(cs, id, msgs) ==
    IF msgs = << >> THEN cs
    ELSE add_messages(add_message(cs, id, Head(msgs).role, Head(msgs).content),
                      id, Tail(msgs))

\* The generator is resumed after the finished marker and one of the
\* add_message calls of lines 121-136 raises: the calls before it have
\* taken effect, and line 139 catches the exception inside the same try, so
\* lines 140-142 yield the error event.
FinalizeFails(r) ==
    /\ pc[r] = "fin_sent"
    /\ request[r].save_conversation
    /\ conversation_id[r] # NoId
    /\ LET msgs == turn_messages(request[r], full_response[r])
       IN  \E j \in 1 .. Len(msgs) :
             conversations' = add_messages(conversations, conversation_id[r],
                                           SubSeq(msgs, 1, j - 1))
    /\ sent' = [sent EXCEPT ![r] = Append(@, ErrorEvent)]
    /\ pc' = [pc EXCEPT ![r] = "persist_failed"]
    /\ UNCHANGED << issued, call, log, request, conversation_id, payload,
                    full_response, content, chunks, produced, pre,
                    mongoVars, auxVars >>

(***************************************************************************)
(* GET and DELETE /api/conversations/{conversation_id} (main.py), called   *)
(* by any client at any time.  call holds the request and its response.    *)
(***************************************************************************)
\* A variant of GetConversationEndpoint that answers without testing that
\* the conversation exists.
GetConversationNoCheck ==
    \E id \in issued \cup Fabricated :
        /\ call' = [NoCall EXCEPT
                        !.op = "GET", !.id = id, !.ok = TRUE, !.status = 200,
                        !.messages = get_conversation_history(conversations, id, None)]
        /\ UNCHANGED << conversations, issued, log, reqVars, mongoVars, auxVars >>

\* Lines 166-185.
GetConversationEndpoint ==
    \E id \in issued \cup Fabricated :
        /\ call' = IF ~conversation_exists(conversations, id)
                   THEN [NoCall EXCEPT !.op = "GET", !.id = id, !.status = 404]
                   ELSE [NoCall EXCEPT
                            !.op = "GET", !.id = id, !.ok = TRUE, !.status = 200,
                            !.messages = get_conversation_history(conversations, id, None)]
        /\ UNCHANGED << conversations, issued, log, reqVars, mongoVars, auxVars >>

\* Lines 188-202.
DeleteConversationEndpoint ==
    \E id \in issued \cup Fabricated :
        LET d == delete_conversation(conversations, id)
        IN  /\ conversations' = d.conversations
            /\ call' = IF ~d.result
                       THEN [NoCall EXCEPT !.op = "DELETE", !.id = id, !.status = 404]
                       ELSE [NoCall EXCEPT !.op = "DELETE", !.id = id, !.ok = TRUE,
                                           !.status = 200]
            /\ UNCHANGED << issued, log, reqVars, mongoVars, auxVars >>

(***************************************************************************)
(* Hyperparameters (models/chat.py).  A float is counted in tenths, so 2.5 *)
(* is 25 and the constraint le=2.0 is "at most Tenths(2)".  An argument is *)
(* an Optional: None, or Some(value); the stop list is a sequence of       *)
(* strings.  A keyword that is not given takes the field's default, which  *)
(* pydantic does not validate.                                             *)
(***************************************************************************)
TemperatureGe == 0
TemperatureLe == 2
TopPGe == 0
TopPLe == 1
MaxTokensGe == 1
MaxTokensLe == 32000
StopMaxLength == 4
ValidatorMaxStop == 4

Tenths(x) == 10 * x

Fields == {"temperature", "top_p", "max_tokens", "stop"}
Temperatures == {None} \cup {Some(v) : v \in {0 - 1, 0, 10, 20, 21, 25}}
TopPs == {None} \cup {Some(v) : v \in {0 - 1, 0, 5, 10, 11}}
MaxTokens == {None} \cup {Some(v) : v \in {0, 1, 1024, 32000, 32001}}
Stops == {None} \cup {Some([i \in 1 .. n |-> "s"]) : n \in 0 .. MaxStopLen}

\* The keyword arguments of a call: a keyword not given carries no value.
HyperArgs ==
    { h \in [given : SUBSET Fields, temperature : Temperatures, top_p : TopPs,
              max_tokens : MaxTokens, stop : Stops] :
        \A f \in Fields \ h.given : h[f] = None }

\* A variant of ge_le whose upper bound is exclusive.
ge_lt(opt, lo, hi) == opt = None \/ (lo <= opt[1] /\ opt[1] < hi)

\* Field(ge=lo, le=hi) on an Optional number: None passes.
ge_le(opt, lo, hi) == opt = None \/ (lo <= opt[1] /\ opt[1] <= hi)

\* Field(max_length=...) on an Optional list: None passes.
max_length(opt, n) == opt = None \/ Len(opt[1]) <= n

\* Lines 41-47: TRUE when the validator returns, FALSE when it raises.
validate_stop_sequences(v) == ~(v # None /\ Len(v[1]) > ValidatorMaxStop)

\* The fields of the model when construction succeeds.
HyperDefaults ==
    [temperature |-> Some(Tenths(1)), top_p |-> Some(Tenths(1)),
     max_tokens |-> Some(1024), stop |-> None]

\* Hyperparameters(**args): the outcome and the fields validated.
Hyperparameters(args) ==
    LET valid ==
            /\ "temperature" \in args.given =>
                    ge_le(args.temperature, Tenths(TemperatureGe), Tenths(TemperatureLe))
            /\ "top_p" \in args.given =>
                    ge_le(args.top_p, Tenths(TopPGe), Tenths(TopPLe))
            /\ "max_tokens" \in args.given =>
                    ge_le(args.max_tokens, MaxTokensGe, MaxTokensLe)
            /\ "stop" \in args.given =>
                    /\ max_length(args.stop, StopMaxLength)
                    /\ validate_stop_sequences(args.stop)
    IN  [given |-> args.given,
         temperature |-> IF "temperature" \in args.given THEN args.temperature
                         ELSE HyperDefaults.temperature,
         top_p |-> IF "top_p" \in args.given THEN args.top_p
                   ELSE HyperDefaults.top_p,
         max_tokens |-> IF "max_tokens" \in args.given THEN args.max_tokens
                        ELSE HyperDefaults.max_tokens,
         stop |-> IF "stop" \in args.given THEN args.stop ELSE HyperDefaults.stop,
         outcome |-> IF valid THEN "ok" ELSE "error"]

\* A client sends a set of generation parameters; the model is constructed
\* or pydantic raises ValidationError.
Construct ==
    /\ hyper.outcome = "none"
    /\ \E args \in HyperArgs : hyper' = Hyperparameters(args)
    /\ UNCHANGED << memVars, reqVars, mongoVars, tasks >>

(***************************************************************************)
(* Initial states.                                                         *)
(***************************************************************************)
MemInit ==
    /\ conversations = << >>
    /\ issued = {}
    /\ call = NoCall
    /\ log = [i \in Ids |-> << >>]

ReqInit ==
    /\ pc = [r \in AllReqs |-> "idle"]
    /\ request = [r \in AllReqs |-> NoRequest]
    /\ conversation_id = [r \in AllReqs |-> NoId]
    /\ payload = [r \in AllReqs |-> << >>]
    /\ full_response = [r \in AllReqs |-> << >>]
    /\ content = [r \in AllReqs |-> << >>]
    /\ sent = [r \in AllReqs |-> << >>]
    /\ chunks = [r \in AllReqs |-> << >>]
    /\ produced = [r \in AllReqs |-> << >>]
    /\ pre = [r \in AllReqs |-> << >>]

MongoInit ==
    /\ collection = << >>
    /\ now = 0
    /\ mcall = NoCall

\* No task is inside add_message; Hyperparameters has not been called.
NoTask ==
    [pc |-> "idle", id |-> NoId, message |-> Message("user", << >>),
     found |-> FALSE, temporary |-> FALSE, raised |-> FALSE]

NoHyper ==
    [given |-> {}, temperature |-> None, top_p |-> None, max_tokens |-> None,
     stop |-> None, outcome |-> "none"]

AuxInit ==
    /\ tasks = [t \in Tasks |-> NoTask]
    /\ hyper = NoHyper

\* A turn an earlier request has stored under u1.
EarlierTurn ==
    << Message("system", <<"s">>), Message("user", <<"H", "i">>),
       Message("assistant", <<"H", "e", "l", "l", "o">>) >>

\* n earlier turns, one after the other.
RECURSIVE Turns(_)
Turns(n) == IF n = 0 THEN << >> ELSE EarlierTurn \o Turns(n - 1)

\* The turns of a conversation that has outgrown the context window.
LongHistory == Turns(ContextWindow \div Len(EarlierTurn) + 1)

\* The stores a request may find: empty; u1 created, used and since deleted;
\* u1 holding an earlier turn; u1 holding more messages than the context
\* window.
StreamInit ==
    /\ \/ conversations = << >> /\ issued = {}
       \/ conversations = << >> /\ issued = {"u1"}
       \/ conversations = ("u1" :> [messages |-> EarlierTurn]) /\ issued = {"u1"}
       \/ conversations = ("u1" :> [messages |-> LongHistory]) /\ issued = {"u1"}
    /\ call = NoCall
    /\ log = [i \in Ids |-> << >>]
    /\ ReqInit
    /\ MongoInit
    /\ AuxInit

(***************************************************************************)
(* Specifications.                                                         *)
(***************************************************************************)
\* The two stores under one sequence of calls, with the clock and MongoDB's
\* TTL monitor running.
StoreNext ==
    \/ CreateCall
    \/ AddMessageCall
    \/ HistoryCall
    \/ ExistsCall
    \/ DeleteCall
    \/ CountCall
    \/ Tick
    \/ TTLMonitor

StoreInit == MemInit /\ ReqInit /\ MongoInit /\ AuxInit

StoreSpec == StoreInit /\ [][StoreNext]_vars

\* Two tasks calling the MongoDB store's add_message at the same time, on a
\* collection that holds nothing or the newly created conversation u1.
AppendInit ==
    /\ \/ collection = << >>
       \/ collection = ("u1" :> Document(<< >>, 0, TRUE, Some(TTL)))
    /\ now = 0
    /\ mcall = NoCall
    /\ MemInit
    /\ ReqInit
    /\ AuxInit

AppendNext ==
    \E t \in Tasks :
        \/ TaskFindOne(t)
        \/ TaskWrite(t)

AppendSpec == AppendInit /\ [][AppendNext]_vars

\* One construction of Hyperparameters, from any arguments.
HyperNext == Construct

HyperSpec == StoreInit /\ [][HyperNext]_vars

\* One chat-stream request against the in-memory store.
StreamNext ==
    \E r \in Reqs :
        \/ ChatStream(r)
        \/ YieldMeta(r)
        \/ GatewayChunk(r)
        \/ YieldContent(r)
        \/ GatewayEnd(r)
        \/ Finalize(r)
        \/ GatewayError(r)
        \/ Disconnect(r)

Spec == StreamInit /\ [][StreamNext]_vars

\* A persist=true request naming the conversation id.
ChatStreamOn(r, id) ==
    /\ ChatStream(r)
    /\ request'[r].save_conversation
    /\ request'[r].conversation_id = id

\* Two persist=true requests on the conversation u1, which holds an earlier
\* turn, their steps interleaved in every way.
ConcInit ==
    /\ conversations = ("u1" :> [messages |-> EarlierTurn])
    /\ issued = {"u1"}
    /\ call = NoCall
    /\ log = [i \in Ids |-> << >>]
    /\ ReqInit
    /\ MongoInit
    /\ AuxInit

ConcNext ==
    \E r \in AllReqs :
        \/ ChatStreamOn(r, "u1")
        \/ YieldMeta(r)
        \/ GatewayChunk(r)
        \/ YieldContent(r)
        \/ GatewayEnd(r)
        \/ Finalize(r)
        \/ GatewayError(r)
        \/ Disconnect(r)

ConcSpec == ConcInit /\ [][ConcNext]_vars

\* One chat-stream request while other clients read and delete conversations.
ApiNext ==
    \/ StreamNext
    \/ GetConversationEndpoint
    \/ DeleteConversationEndpoint

ApiSpec == StreamInit /\ [][ApiNext]_vars

\* One chat-stream request whose store writes may raise.
FaultNext ==
    \/ StreamNext
    \/ \E r \in Reqs : FinalizeFails(r)

FaultSpec == StreamInit /\ [][FaultNext]_vars

(***************************************************************************)
(* Properties of one chat-stream request (Spec).                           *)
(***************************************************************************)
Last(seq) == seq[Len(seq)]
Front(seq) == SubSeq(seq, 1, Len(seq) - 1)
History(cs, id) == get_conversation_history(cs, id, None)
HasFinished(r) == \E i \in 1 .. Len(sent[r]) : sent[r][i] = FinishedEvent

\* The turn of request r as the specification describes it.
TurnOf(r) ==
    (IF request[r].system_prompt # NoPrompt
     THEN << Message("system", request[r].system_prompt) >> ELSE << >>)
    \o << Message("user", request[r].user_prompt),
          Message("assistant", Concat(produced[r])) >>

\* C1: the fragment events sent to the client are the fragments the gateway
\* produced, in its order (all of them but the one bound and not yet
\* yielded); and when a persist=true request has completed, the last message
\* of its conversation is the assistant message whose content is the
\* concatenation of the fragments sent, in that order.
C1_OrderAndConcatenation ==
    \A r \in Reqs :
        /\ Fragments(sent[r]) =
               (IF pc[r] = "have" THEN Front(produced[r]) ELSE produced[r])
        /\ (pc[r] = "done" /\ request[r].save_conversation) =>
               LET h == History(conversations, conversation_id[r])
               IN  /\ h # << >>
                   /\ Last(h) = Message("assistant", Concat(Fragments(sent[r])))

C1_Witness ==
    \E r \in Reqs :
        /\ pc[r] = "done"
        /\ request[r].save_conversation
        /\ Fragments(sent[r]) = << <<"H", "e", "l">>, <<"l", "o">> >>
        /\ Last(History(conversations, conversation_id[r])).content
               = <<"H", "e", "l", "l", "o">>

\* C2: when the gateway has raised, after any number of fragments, the last
\* event sent is the error event with finished = true, and every
\* conversation's history is what it was before the request.
C2_FailureLeavesHistory ==
    \A r \in Reqs :
        pc[r] = "failed" =>
            /\ sent[r] # << >>
            /\ Last(sent[r]) = ErrorEvent
            /\ Last(sent[r]).finished
            /\ \A id \in Ids :
                   History(conversations, id) = History(pre[r], id)

C2_Witness ==
    \E r \in Reqs :
        /\ pc[r] = "failed"
        /\ request[r].save_conversation
        /\ Len(produced[r]) = 1
        /\ Last(sent[r]) = ErrorEvent
        /\ History(pre[r], conversation_id[r]) = EarlierTurn
        /\ History(conversations, conversation_id[r]) = EarlierTurn

\* C3: whenever the finished marker of a persist=true request has been sent,
\* the completed turn is in the store, after the history the conversation
\* had before the request.
C3_PersistedBeforeMarker ==
    \A r \in Reqs :
        (request[r].save_conversation /\ HasFinished(r)) =>
            History(conversations, conversation_id[r])
                = History(pre[r], conversation_id[r]) \o TurnOf(r)

\* C4: once the client of a request has disconnected before the end of the
\* upstream stream, every conversation's history is what it was before the
\* request, and no later step asks the provider for an event, yields a
\* fragment or changes the store.
CancelledMidStream(r) == pc[r] = "cancelled" /\ ~HasFinished(r)

C4_DisconnectStoresNothing ==
    /\ [](\A r \in Reqs :
            CancelledMidStream(r) =>
                \A id \in Ids : History(conversations, id) = History(pre[r], id))
    /\ [][\A r \in Reqs :
            CancelledMidStream(r) =>
                /\ chunks'[r] = chunks[r]
                /\ produced'[r] = produced[r]
                /\ sent'[r] = sent[r]
                /\ conversations' = conversations]_vars

C4_Witness ==
    \E r \in Reqs :
        /\ CancelledMidStream(r)
        /\ request[r].save_conversation
        /\ Len(produced[r]) = 1
        /\ full_response[r] # << >>
        /\ History(conversations, conversation_id[r]) = EarlierTurn

\* C5: when a persist=true request that named no conversation has completed,
\* its first event carries an id the store did not hold before the request,
\* and the history under that id is the system message (if a system prompt
\* was supplied), the user message and the assistant message with the full
\* text: three messages, or two without a system prompt, and nothing else.
C5_NewConversationTurn ==
    \A r \in Reqs :
        (pc[r] = "done" /\ request[r].save_conversation
            /\ request[r].conversation_id = NoId) =>
            LET cid == conversation_id[r]
            IN  /\ sent[r][1] = MetaEvent(cid, request[r].model)
                /\ cid \in UuidPool
                /\ cid \notin DOMAIN pre[r]
                /\ History(conversations, cid) = TurnOf(r)
                /\ Len(History(conversations, cid))
                       = (IF request[r].system_prompt # NoPrompt THEN 3 ELSE 2)
                /\ Last(History(conversations, cid)).content = full_response[r]

C5_Witness ==
    \E r \in Reqs :
        /\ pc[r] = "done"
        /\ request[r].save_conversation
        /\ request[r].conversation_id = NoId
        /\ request[r].system_prompt # NoPrompt
        /\ Len(History(conversations, conversation_id[r])) = 3
        /\ Last(History(conversations, conversation_id[r])).content
               = <<"H", "e", "l", "l", "o">>

(***************************************************************************)
(* Properties of the store (StoreSpec).                                    *)
(***************************************************************************)
MongoHistory(coll, id) == mongo_get_conversation_history(coll, id, None)

\* The last k elements of seq, for 0 <= k <= Len(seq).
LastK(seq, k) == SubSeq(seq, Len(seq) - k + 1, Len(seq))

\* C6: after N appends to an id, history(id) returns the N messages in call
\* order, and history(id, limit=k) with k < N returns the last k of them.
C6_HistoryLastK ==
    call.op = "history" =>
        IF call.max_messages = None
        THEN call.messages = log[call.id]
        ELSE call.max_messages[1] < Len(log[call.id]) =>
                 call.messages = LastK(log[call.id], call.max_messages[1])

\* What the code does: the statement of C6 for every limit but 0, and the
\* whole history for limit 0.
HistoryLastKOrAll ==
    call.op = "history" =>
        IF call.max_messages = None \/ call.max_messages[1] = 0
        THEN call.messages = log[call.id]
        ELSE call.max_messages[1] < Len(log[call.id]) =>
                 call.messages = LastK(log[call.id], call.max_messages[1])

\* C7: after create(), history of the new id is empty and exists is true;
\* delete returns true exactly when the id existed, afterwards exists is
\* false, and a delete of an unknown id leaves the store as it was.  In
\* both backends.
C7_RoundTrips ==
    [][/\ call'.op = "create" =>
            /\ History(conversations', call'.id) = << >>
            /\ conversation_exists(conversations', call'.id)
            /\ MongoHistory(collection', call'.id) = << >>
            /\ mongo_conversation_exists(collection', call'.id)
       /\ call'.op = "delete" =>
            /\ call'.ok = conversation_exists(conversations, call'.id)
            /\ ~conversation_exists(conversations', call'.id)
            /\ ~call'.ok => conversations' = conversations
            /\ mcall'.ok = mongo_conversation_exists(collection, call'.id)
            /\ ~mongo_conversation_exists(collection', call'.id)
            /\ ~mcall'.ok => collection' = collection]_vars

\* A second delete of an id: it was issued by create, is absent, and the
\* delete returned false.
C7_Witness ==
    /\ call.op = "delete"
    /\ call.id \in issued
    /\ ~call.ok
    /\ ~mcall.ok
    /\ ~conversation_exists(conversations, call.id)

\* C8: an append to an id the store does not know creates the conversation
\* under that id with the message as its whole history; in the MongoDB
\* backend the new document is temporary and expires TTL after the last
\* read of the clock the call made.
C8_AppendCreates ==
    [][call'.op = "append" =>
        /\ ~conversation_exists(conversations, call'.id) =>
              /\ conversation_exists(conversations', call'.id)
              /\ History(conversations', call'.id) = << call'.message >>
        /\ ~mongo_conversation_exists(collection, call'.id) =>
              /\ mongo_conversation_exists(collection', call'.id)
              /\ MongoHistory(collection', call'.id) = << call'.message >>
              /\ collection'[call'.id].temporary
              /\ collection'[call'.id].expires_at = Some(now' + TTL)]_vars

\* An append has recreated an id that create had issued and delete removed.
C8_Witness ==
    /\ call.op = "append"
    /\ call.id \in issued
    /\ ~call.ok
    /\ ~mcall.ok
    /\ History(conversations, call.id) = << call.message >>
    /\ MongoHistory(collection, call.id) = << call.message >>

\* C9, as stated: create and every append set a temporary conversation's
\* expires_at to updated_at + TTL, and with the clock advanced an append
\* strictly increases it.
C9_ExpiresIsUpdatedPlusTTL ==
    [][(mcall'.op \in {"create", "append"} /\ collection'[mcall'.id].temporary) =>
        LET id == mcall'.id
            d == collection'[id]
        IN  /\ d.expires_at = Some(d.updated_at + TTL)
            /\ (find_one(collection, id) /\ now' > now) =>
                   d.expires_at[1] > collection[id].expires_at[1]]_vars

\* C9, amended: create and every append set a temporary conversation's
\* expires_at to TTL after a read of the clock made during the call, which
\* is not the read stored in updated_at and is not earlier than it: so
\* expires_at >= updated_at + TTL.  An append never decreases expires_at
\* and, with the clock advanced, strictly increases it.
C9_SlidingExpiry ==
    [][(mcall'.op \in {"create", "append"} /\ collection'[mcall'.id].temporary) =>
        LET id == mcall'.id
            d == collection'[id]
        IN  /\ d.expires_at = Some(now' + TTL)
            /\ now <= d.updated_at
            /\ d.updated_at <= now'
            /\ d.expires_at[1] >= d.updated_at + TTL
            /\ find_one(collection, id) =>
                   /\ d.expires_at[1] >= collection[id].expires_at[1]
                   /\ now' > now => d.expires_at[1] > collection[id].expires_at[1]]_vars

\* A second append to a temporary conversation, whose two reads of the
\* clock differed.
C9_Witness ==
    /\ mcall.op = "append"
    /\ find_one(collection, mcall.id)
    /\ collection[mcall.id].temporary
    /\ Len(collection[mcall.id].messages) = 2
    /\ collection[mcall.id].expires_at[1] > collection[mcall.id].updated_at + TTL

\* C10: a temporary conversation whose expires_at the clock has passed is
\* unreachable: exists is false, count does not include it and its history
\* is empty, whether or not the TTL monitor has run.
C10_ExpiredUnreachable ==
    /\ \A id \in Ids :
          (find_one(collection, id) /\ collection[id].temporary
              /\ now > collection[id].expires_at[1]) =>
              /\ ~mongo_conversation_exists(collection, id)
              /\ MongoHistory(collection, id) = << >>
    /\ mongo_get_conversation_count(collection)
          = Cardinality(DOMAIN collection \ Expired(collection, now))


\* C14: context resolution.  A persist=true request with no id, or with an
\* id the store did not hold when the request arrived, runs under an id
\* newly created for it: one the store did not hold, different from the
\* supplied one, announced in the metadata event and holding the turn when
\* the request is done, the supplied id staying unknown.  A persist=false
\* request sends no history upstream, whatever id it supplies.
C14_ContextResolution ==
    \A r \in Reqs :
        pc[r] # "idle" =>
            LET req == request[r]
                cid == conversation_id[r]
                supplied == req.conversation_id
                known == supplied # NoId /\ conversation_exists(pre[r], supplied)
            IN  /\ (req.save_conversation /\ ~known) =>
                        /\ cid \in UuidPool
                        /\ cid # supplied
                        /\ ~conversation_exists(pre[r], cid)
                        /\ sent[r] # << >> => sent[r][1] = MetaEvent(cid, req.model)
                        /\ pc[r] = "done" =>
                                /\ History(conversations, cid) = TurnOf(r)
                                /\ supplied # NoId =>
                                        ~conversation_exists(conversations, supplied)
                /\ (req.save_conversation /\ known) => cid = supplied
                /\ ~req.save_conversation =>
                        /\ payload[r] = to_messages(req, << >>)
                        /\ Len(payload[r]) <= 2

\* A request that supplied an id once issued and since deleted has stored
\* its turn under another id.
C14_Witness ==
    \E r \in Reqs :
        /\ pc[r] = "done"
        /\ request[r].save_conversation
        /\ request[r].conversation_id = "u1"
        /\ conversation_id[r] = "u2"
        /\ Len(History(conversations, "u2")) = 3

\* C15: the messages sent to the gateway are the loaded history, then the
\* system prompt if there is one, then the user prompt; the loaded history
\* of a persist=true request is the last min(20, N) of the N messages its
\* conversation held when the request arrived, in stored order (a
\* persist=false request loads none), so never more than 20 messages.
C15_PayloadIsWindowedHistory ==
    \A r \in Reqs :
        pc[r] # "idle" =>
            LET req == request[r]
                stored == History(pre[r], conversation_id[r])
                N == Len(stored)
                k == IF N < 20 THEN N ELSE 20
                loaded == IF req.save_conversation THEN LastK(stored, k) ELSE << >>
                system == IF req.system_prompt # NoPrompt
                          THEN << Message("system", req.system_prompt) >>
                          ELSE << >>
            IN  /\ payload[r] = loaded \o system \o << Message("user", req.user_prompt) >>
                /\ Len(loaded) <= 20
                /\ Len(payload[r]) <= 22

\* A request on a conversation of 21 messages sends the last 20 of them: the
\* oldest, a system message, is left out.
C15_Witness ==
    \E r \in Reqs :
        /\ pc[r] # "idle"
        /\ request[r].save_conversation
        /\ Len(History(pre[r], conversation_id[r])) = 21
        /\ Len(payload[r]) = 22
        /\ payload[r][1] = Message("user", <<"H", "i">>)
        /\ payload[r][21] = Message("system", <<"s">>)

\* The status line of the response to request r: chat_stream returns the
\* StreamingResponse (lines 144-152, status 200) before any of
\* generate_stream runs, and the transport sends the status with the first
\* event.
ResponseStatus(r) == IF pc[r] = "idle" THEN 0 ELSE 200

\* C12: when the gateway has failed before the provider produced anything,
\* the response is a server error (status 500) and no stream event has been
\* sent.
C12_PreStreamFailureIsServerError ==
    \A r \in Reqs :
        (pc[r] = "failed" /\ chunks[r] = << >>) =>
            /\ ResponseStatus(r) = 500
            /\ sent[r] = << >>

(***************************************************************************)
(* Properties of one chat-stream request whose store writes may raise      *)
(* (FaultSpec).                                                            *)
(***************************************************************************)
Ended(r) == pc[r] \in {"done", "failed", "persist_failed"}

\* C11: the events of a response are one metadata event, first; then
\* fragment events; then one terminal event (finished = true), after which
\* nothing is sent: no event but the last is terminal, and a generator that
\* has run to its end has sent a terminal event.
C11_OneTerminalEventLast ==
    \A r \in Reqs :
        LET evs == sent[r]
        IN  /\ evs # << >> => evs[1].kind = "meta"
            /\ \A i \in 2 .. Len(evs) : evs[i].kind # "meta"
            /\ \A i \in 1 .. Len(evs) - 1 : ~evs[i].finished
            /\ Ended(r) => evs # << >> /\ Last(evs).finished

\* C13: when a store write has failed during the finalization of a
\* persist=true request whose upstream stream ended naturally, the generator
\* has ended by itself, after the finished marker, and the fragment events
\* sent are all the fragments the gateway produced, in order: the client
\* holds the whole generated text.
C13_TextDeliveredWhenPersistFails ==
    \A r \in Reqs :
        pc[r] = "persist_failed" =>
            /\ request[r].save_conversation
            /\ HasFinished(r)
            /\ Fragments(sent[r]) = produced[r]
            /\ Concat(Fragments(sent[r])) = full_response[r]

C13_Witness ==
    \E r \in Reqs :
        /\ pc[r] = "persist_failed"
        /\ produced[r] = << <<"H", "e", "l">>, <<"l", "o">> >>
        /\ History(conversations, conversation_id[r])
                = << Message("user", request[r].user_prompt) >>


(***************************************************************************)
(* Properties of one chat-stream request while other clients read and      *)
(* delete conversations (ApiSpec).                                         *)
(***************************************************************************)
\* C16: a persist=true request is not failed by an unknown id.  Whatever id
\* it supplies, context resolution leaves it with a conversation that
\* exists; and whatever has been deleted since, when it is resumed after
\* the finished marker all fragments have been sent in order and its turn
\* is appended to what the store holds under the id it is using, the
\* conversation being there afterwards.
C16_UnknownIdNeverFails ==
    [][ \A r \in Reqs :
          /\ (pc[r] = "idle" /\ pc'[r] = "ready" /\ request'[r].save_conversation) =>
                conversation_exists(conversations', conversation_id'[r])
          /\ (pc[r] = "fin_sent" /\ pc'[r] = "done" /\ request[r].save_conversation) =>
                /\ Last(sent[r]) = FinishedEvent
                /\ Fragments(sent[r]) = produced[r]
                /\ conversation_exists(conversations', conversation_id[r])
                /\ History(conversations', conversation_id[r])
                      = History(conversations, conversation_id[r]) \o TurnOf(r)
      ]_vars

\* The conversation held an earlier turn when the request arrived and holds
\* only the request's turn now: it was deleted while the request streamed.
C16_Witness ==
    \E r \in Reqs :
        /\ pc[r] = "done"
        /\ request[r].save_conversation
        /\ produced[r] # << >>
        /\ History(pre[r], conversation_id[r]) = EarlierTurn
        /\ History(conversations, conversation_id[r]) = TurnOf(r)

\* C18: GET answers 200 with the id and all the messages of a conversation
\* that exists and 404 for an unknown id, and changes nothing; DELETE
\* answers 200 for a conversation that exists and 404 for an unknown id, and
\* the id is unknown afterwards; so a GET or DELETE of an id whose DELETE
\* has succeeded, with nothing appended to it since, answers 404.
C18_GetAndDeleteStatus ==
    [][ (reqVars' = reqVars /\ call'.op \in {"GET", "DELETE"}) =>
          LET id == call'.id
              existed == conversation_exists(conversations, id)
          IN  /\ call'.status = IF existed THEN 200 ELSE 404
              /\ call'.op = "GET" =>
                    /\ conversations' = conversations
                    /\ existed => call'.messages = conversations[id].messages
              /\ call'.op = "DELETE" =>
                    /\ ~conversation_exists(conversations', id)
                    /\ \A i \in DOMAIN conversations \ {id} :
                          /\ conversation_exists(conversations', i)
                          /\ conversations'[i] = conversations[i]
              /\ ( /\ call.op = "DELETE" /\ call.status = 200 /\ call.id = id
                   /\ ~conversation_exists(conversations, id) ) =>
                    call'.status = 404
      ]_vars

\* The second DELETE of the conversation a completed request had stored its
\* turn in.
C18_Witness ==
    \E r \in Reqs :
        /\ pc[r] = "done"
        /\ request[r].save_conversation
        /\ call.op = "DELETE"
        /\ call.id = conversation_id[r]
        /\ call.status = 404
        /\ ~conversation_exists(conversations, conversation_id[r])


(***************************************************************************)
(* The two stores side by side (StoreSpec).                                *)
(***************************************************************************)
\* The two stores hold the same ids and, under each, the same messages.
StoresAgree ==
    /\ DOMAIN conversations = DOMAIN collection
    /\ \A id \in DOMAIN conversations :
            conversations[id].messages = collection[id].messages

\* C19: from stores that hold the same conversations, every call (create,
\* append, history with or without limit, exists, delete, count) returns
\* the same result from both and leaves them holding the same
\* conversations.  Both start empty and only the removal of an expired
\* document makes them differ, so along a sequence of calls in which no
\* conversation expires they agree at every step.
C19_BackendsAgree ==
    [][ (StoresAgree /\ call'.op # "none") =>
            /\ mcall' = call'
            /\ StoresAgree'
      ]_vars

\* A limited history read of a conversation of two messages, the clock
\* having advanced, answered alike by both stores.
C19_Witness ==
    /\ StoresAgree
    /\ now > 0
    /\ call.op = "history"
    /\ call.max_messages = Some(1)
    /\ Len(History(conversations, call.id)) = 2
    /\ Len(call.messages) = 1
    /\ mcall = call

\* C25: a history or exists call changes neither store: the ids, the
\* messages under each id and the count are what they were; on an id the
\* store does not hold, history returns the empty sequence and exists
\* returns false, and the id is still not held afterwards.
C25_ReadsChangeNothing ==
    [][ call'.op \in {"history", "exists"} =>
          LET id == call'.id
          IN  /\ conversations' = conversations
              /\ collection' = collection
              /\ get_conversation_count(conversations')
                    = get_conversation_count(conversations)
              /\ mongo_get_conversation_count(collection')
                    = mongo_get_conversation_count(collection)
              /\ History(conversations', id) = History(conversations, id)
              /\ MongoHistory(collection', id) = MongoHistory(collection, id)
              /\ ~conversation_exists(conversations, id) =>
                    /\ call'.messages = << >>
                    /\ ~call'.ok
                    /\ ~conversation_exists(conversations', id)
              /\ ~mongo_conversation_exists(collection, id) =>
                    /\ mcall'.messages = << >>
                    /\ ~mcall'.ok
                    /\ ~mongo_conversation_exists(collection', id)
      ]_vars

\* A limited history read of an id neither store holds, while they hold
\* another conversation with a message.
C25_Witness ==
    /\ call.op = "history"
    /\ call.id = "x"
    /\ call.max_messages = Some(1)
    /\ call.messages = << >>
    /\ mcall.messages = << >>
    /\ ~conversation_exists(conversations, "x")
    /\ ~mongo_conversation_exists(collection, "x")
    /\ get_conversation_count(conversations) = 1
    /\ mongo_get_conversation_count(collection) = 1
    /\ Len(History(conversations, "u1")) = 1

(***************************************************************************)
(* Properties of concurrent appends to the MongoDB store (AppendSpec).     *)
(***************************************************************************)
\* C17: whatever the interleaving of the store steps of tasks appending to
\* one id, no append raises, and the messages of the appends that have
\* returned are all in the conversation.
C17_ConcurrentAppendsSafe ==
    /\ \A t \in Tasks : tasks[t].pc # "raised"
    /\ \A id \in Ids :
        LET ended == {t \in Tasks : tasks[t].pc = "returned" /\ tasks[t].id = id}
        IN  ended # {} =>
              /\ find_one(collection, id)
              /\ Len(collection[id].messages) >= Cardinality(ended)
              /\ \A t \in ended :
                    \E i \in 1 .. Len(collection[id].messages) :
                        collection[id].messages[i] = tasks[t].message


(***************************************************************************)
(* Properties of Hyperparameters (HyperSpec).                              *)
(***************************************************************************)
\* The documented bounds, in tenths for the two floats: temperature in
\* [0, 2], nucleus threshold in [0, 1], max output tokens in [1, 32000], at
\* most 4 stop sequences; a field left out or None is within bounds.
InDocumentedBounds(h) ==
    /\ h.temperature # None => (0 <= h.temperature[1] /\ h.temperature[1] <= 20)
    /\ h.top_p # None => (0 <= h.top_p[1] /\ h.top_p[1] <= 10)
    /\ h.max_tokens # None => (1 <= h.max_tokens[1] /\ h.max_tokens[1] <= 32000)
    /\ h.stop # None => Len(h.stop[1]) <= 4

\* C20: construction succeeds exactly when every value is within the
\* documented bounds, so a parameter set with a value out of bounds never
\* becomes a Hyperparameters object to hand to the gateway.
C20_ValidationMatchesBounds ==
    hyper.outcome # "none" =>
        (hyper.outcome = "ok" <=> InDocumentedBounds(hyper))

\* Temperature 2.5 with everything else within bounds is refused, and so is
\* nothing else about the call.
C20_Witness ==
    /\ hyper.outcome = "error"
    /\ hyper.given = Fields
    /\ hyper.temperature = Some(25)
    /\ hyper.top_p = Some(10)
    /\ hyper.max_tokens = Some(32000)
    /\ hyper.stop # None
    /\ Len(hyper.stop[1]) = 4


(***************************************************************************)
(* Further properties of one chat-stream request (Spec).                   *)
(***************************************************************************)
\* C21: a fragment is added to the accumulator before it is sent: the
\* concatenation of the fragments sent is a prefix of the accumulator, and
\* the accumulator is longer by exactly the fragment bound and not yet sent
\* when there is one, and by nothing otherwise.
C21_AccumulatedBeforeSent ==
    \A r \in Reqs :
        LET emitted == Concat(Fragments(sent[r]))
        IN  /\ Len(emitted) <= Len(full_response[r])
            /\ SubSeq(full_response[r], 1, Len(emitted)) = emitted
            /\ full_response[r]
                  = emitted \o (IF pc[r] = "have" THEN content[r] ELSE << >>)

\* The second fragment is in the accumulator and has not been sent.
C21_Witness ==
    \E r \in Reqs :
        /\ pc[r] = "have"
        /\ Len(produced[r]) = 2
        /\ Concat(Fragments(sent[r])) = <<"H", "e", "l">>
        /\ full_response[r] = <<"H", "e", "l", "l", "o">>


\* The provider events with content, in order.
RECURSIVE WithContent(_)
WithContent(evs) ==
    IF evs = << >> THEN << >>
    ELSE (IF Head(evs) # << >> THEN << Head(evs) >> ELSE << >>)
            \o WithContent(Tail(evs))

\* The upstream stream of r has ended.
StreamOver(r) == pc[r] \in {"fin_sent", "done", "failed", "cancelled"}

\* C22 as stated: the gateway has yielded as many fragments as the provider
\* has produced events, whatever their content.
C22_OneFragmentPerEvent ==
    \A r \in Reqs : Len(produced[r]) = Len(chunks[r])

\* C22: the gateway yields, in the provider's order, the content of each
\* provider event that has content and nothing for an event whose content
\* is empty: the fragments are the provider events with content, no more
\* than the events, and their concatenation is the concatenation of all the
\* events' content; once the provider has signalled completion (or the
\* stream has failed or been closed) nothing more is yielded.
C22_FragmentPerEventWithContent ==
    /\ [](\A r \in Reqs :
            /\ produced[r] = WithContent(chunks[r])
            /\ Len(produced[r]) <= Len(chunks[r])
            /\ Concat(produced[r]) = Concat(chunks[r])
            /\ \A i \in 1 .. Len(produced[r]) : produced[r][i] # << >>)
    /\ [][ \A r \in Reqs :
              StreamOver(r) => (produced'[r] = produced[r] /\ chunks'[r] = chunks[r])
         ]_vars

\* The provider produced an event without content and then one with: one
\* fragment was yielded, and the stream has completed.
C22_Witness ==
    \E r \in Reqs :
        /\ pc[r] = "done"
        /\ chunks[r] = << << >>, <<"H", "e", "l">> >>
        /\ produced[r] = << <<"H", "e", "l">> >>
        /\ Fragments(sent[r]) = produced[r]


\* C23: a persist=false request changes nothing in the store, whatever id it
\* supplies and wherever it stands or has ended: the ids, the messages under
\* each id and the count are those the store held when the request arrived.
C23_NoPersistNoMutation ==
    \A r \in Reqs :
        (pc[r] # "idle" /\ ~request[r].save_conversation) =>
            /\ DOMAIN conversations = DOMAIN pre[r]
            /\ \A id \in Ids : History(conversations, id) = History(pre[r], id)
            /\ get_conversation_count(conversations) = get_conversation_count(pre[r])
            /\ conversations = pre[r]

\* A persist=false request that named a conversation holding a turn has
\* completed with text generated.
C23_Witness ==
    \E r \in Reqs :
        /\ pc[r] = "done"
        /\ ~request[r].save_conversation
        /\ request[r].conversation_id = "u1"
        /\ History(pre[r], "u1") = EarlierTurn
        /\ full_response[r] # << >>


\* Request r is persist=true and supplied no id, or one the store did not
\* hold when it arrived.
CreatesConversation(r) ==
    /\ pc[r] # "idle"
    /\ request[r].save_conversation
    /\ \/ request[r].conversation_id = NoId
       \/ ~conversation_exists(pre[r], request[r].conversation_id)

\* C26: the conversation of such a request is created when the context is
\* resolved: it is in the store, empty, when chat_stream returns, before the
\* provider has been asked for anything, and it stays in the store whatever
\* the request does; when the stream has failed or the client has
\* disconnected it is there with no messages, the store holding one
\* conversation more than before the request and the others as they were.
C26_CreatedConversationRemains ==
    \A r \in Reqs :
        CreatesConversation(r) =>
            LET cid == conversation_id[r]
            IN  /\ ~conversation_exists(pre[r], cid)
                /\ conversation_exists(conversations, cid)
                /\ pc[r] = "ready" =>
                        /\ chunks[r] = << >>
                        /\ sent[r] = << >>
                        /\ History(conversations, cid) = << >>
                /\ pc[r] \in {"failed", "cancelled"} =>
                        /\ History(conversations, cid) = << >>
                        /\ get_conversation_count(conversations)
                                = get_conversation_count(pre[r]) + 1
                        /\ \A id \in DOMAIN pre[r] :
                                /\ conversation_exists(conversations, id)
                                /\ conversations[id] = pre[r][id]

\* A request without an id has failed after a fragment: its conversation is
\* there, empty, beside the one the store already held.
C26_Witness ==
    \E r \in Reqs :
        /\ pc[r] = "failed"
        /\ request[r].save_conversation
        /\ request[r].conversation_id = NoId
        /\ produced[r] # << >>
        /\ conversation_exists(conversations, conversation_id[r])
        /\ History(conversations, conversation_id[r]) = << >>
        /\ get_conversation_count(conversations) = 2

(***************************************************************************)
(* Properties of two concurrent requests on one conversation (ConcSpec).   *)
(***************************************************************************)
\* The orders in which the requests of D may have stored their turns.
Orders(D) ==
    { f \in [1 .. Cardinality(D) -> D] :
        \A i, j \in 1 .. Cardinality(D) : f[i] = f[j] => i = j }

\* C24: at every point the history of the conversation is what it held
\* before, followed by the whole turns ([system], user, assistant) of the
\* requests that have completed, one turn after the other in some order:
\* no turn is there in part and none has another request's message inside.
C24_TurnsContiguous ==
    LET completed == {r \in AllReqs : pc[r] = "done" /\ conversation_id[r] = "u1"}
    IN  \E f \in Orders(completed) :
            History(conversations, "u1")
                = EarlierTurn \o Concat([i \in 1 .. Cardinality(completed) |-> TurnOf(f[i])])

\* Two requests that both arrived before either stored anything have
\* completed with different turns.
C24_Witness ==
    /\ pc["r1"] = "done"
    /\ pc["r2"] = "done"
    /\ pre["r1"] = pre["r2"]
    /\ request["r1"].system_prompt # NoPrompt
    /\ request["r2"].system_prompt = NoPrompt
    /\ produced["r1"] # produced["r2"]
    /\ Len(History(conversations, "u1")) = 8

=============================================================================
